---- MODULE Spec2Model ----
(***************************************************************************)
(* Violation aggregation and property enrichment: the two route handlers   *)
(* (app/api/enrich POST, app/api/properties GET), the limit parser and the *)
(* aggregation core they call.                                             *)
(*                                                                         *)
(* Specifications:                                                         *)
(*   Spec        the violations endpoint: mock mode, provider fan-out,     *)
(*               settle-all join, merge, filter, sort, truncation          *)
(*   SpecEnrich  the enrichment endpoint and its three concurrent lookups  *)
(*   SpecLimit   the limit parameter, from query string to effective limit *)
(*   SpecSort    filter, sort and truncation of a merged item sequence     *)
(*   SpecFanOut  either fan-out, for what both have in common              *)
(*   SpecHome    the home screen: row selection, search, enrichment data   *)
(*   SpecForm    the search form: draft, submit, reset                     *)
(***************************************************************************)
EXTENDS Integers, Sequences, FiniteSets, TLC

VARIABLES
    eBody,      \* the JSON body of the enrichment request (input)
    eOutcome,   \* how each lookup collaborator ends for this request
    integ,      \* isIntegrationConfigured.* and env.mockMode
    ePc,        \* position of POST: "idle", "awaiting", "responded"
    eCalls,     \* per lookup: the promise it returned and what it was given
    eInvoked,   \* per lookup: how many times it was invoked
    eResp,      \* the response POST returned, or NoResponse
    eAborted,   \* the request's cancellation signal has fired
    eDelivered, \* lookups that were told of the cancellation
    rawLimit,   \* searchParams.get("limit"): present or not, and its characters
    limitPc,    \* "idle" or "done"
    filtersLimit, \* filters.limit as GET builds it (parseLimit's result)
    effLimit,   \* the limit the aggregation uses
    sItems,     \* merged items entering filter, sort and truncation
    sQuery,     \* filters.query, <<>> when absent
    sLimit,     \* the effective limit
    sOut,       \* the items the aggregation returns
    sPc,        \* "idle" or "done"
    mockMode,   \* env.mockMode
    adapters,   \* per provider: what its adapter does when queried
    gReq,       \* the query string of the violations request (input)
    gPc,        \* position of GET: "idle", "fetching", "done"
    slots,      \* per provider: the outcome slot of its adapter call
    arrival,    \* providers in the order their calls settled
    gInvoked,   \* per provider: adapter invocations during this request
    fvResult,   \* what fetchViolations resolved with, or NoResult
    gResp,      \* the response GET returned, or NoResponse
    prevResp,   \* the response to the same request made before, or NoResponse
    prevArrival, \* the settle order during that earlier request
    uiFilters,  \* HomeScreen: the applied search filters (its state "filters")
    localFilters, \* SearchForm: the draft being edited
    selected,   \* HomeScreen: the selected row, or NoItem
    lastClicked, \* the row clicked most recently, or NoItem (history)
    swrCache,   \* useSWR: per enrichment key, the data and error it holds
    swrInflight \* useSWR: per enrichment key, the row a pending request was issued for

enrichVars == <<eBody, eOutcome, integ, ePc, eCalls, eInvoked, eResp, eAborted, eDelivered>>

limitVars == <<rawLimit, limitPc, filtersLimit, effLimit>>

sortVars == <<sItems, sQuery, sLimit, sOut, sPc>>

aggVars == <<mockMode, adapters, gReq, gPc, slots, arrival, gInvoked, fvResult, gResp,
             prevResp, prevArrival>>

uiVars == <<uiFilters, localFilters, selected, lastClicked, swrCache, swrInflight>>

vars == <<enrichVars, limitVars, sortVars, aggVars, uiVars>>

(***************************************************************************)
(* Values                                                                  *)
(***************************************************************************)
\* a property that is absent from an object (JavaScript undefined)
Undefined == "undefined"

\* the three enrichment capabilities POST imports
Lookups == {"findPropertyImage", "skipTraceOwner", "fetchMortgageStatus"}

NoResponse == [status |-> 0]

\* JavaScript truthiness of a string-or-undefined value
Truthy(v) == v # Undefined /\ v # ""

\* v ?? ""
OrEmpty(v) == IF v = Undefined THEN "" ELSE v

(***************************************************************************)
(* Request bodies. kind "invalid": request.json() rejects (not JSON);      *)
(* kind "null": the body is the JSON value null; kind "object": an object. *)
(***************************************************************************)
Addresses == {Undefined, "", "12 Elm St"}
Cities == {Undefined, "LA"}
States == {Undefined, "CA"}

Bodies ==
    {[kind |-> k, address |-> Undefined, city |-> Undefined, state |-> Undefined]
        : k \in {"invalid", "null"}}
    \cup
    {[kind |-> "object", address |-> a, city |-> c, state |-> s]
        : a \in Addresses, c \in Cities, s \in States}

\* fault variant of parseBodyThrows: only the empty string is refused
parseBodyThrowsStrictEmpty(json) ==
    json.kind = "invalid" \/ json.kind = "null" \/ json.address = ""

\* parseBody: does it throw, and with which message
parseBodyThrows(json) ==
    \/ json.kind = "invalid"                       \* await request.json() rejects
    \/ json.kind = "null"                          \* json?.address is undefined
    \/ ~Truthy(json.address)                       \* !json?.address

parseBodyMessage(json) ==
    IF json.kind = "invalid" THEN "Unexpected token" ELSE "address is required"

\* the payload parseBody returns
parseBody(json) == [address |-> json.address, city |-> json.city, state |-> json.state]

\* the argument each lookup is invoked with
LookupArg(l, payload) ==
    IF l = "findPropertyImage"
    THEN [q |-> payload.address \o " " \o OrEmpty(payload.city) \o " " \o OrEmpty(payload.state)]
    ELSE [address |-> payload.address, city |-> payload.city, state |-> payload.state]

\* what a lookup's promise fulfils with: a record naming the lookup and its
\* argument, or null
Null == [kind |-> "null"]
LookupValue(l, arg, outcome) ==
    IF outcome = "null" THEN Null ELSE [kind |-> "value", of |-> l, arg |-> arg]

LookupError(l) == "failed: " \o l

NotCalled == [status |-> "none", signal |-> FALSE]

\* POST passes no signal to any of the three lookups
PassesSignal(l) == FALSE

(***************************************************************************)
(* Enrichment endpoint                                                     *)
(***************************************************************************)
EnrichIdle ==
    /\ eBody = [kind |-> "null", address |-> Undefined, city |-> Undefined, state |-> Undefined]
    /\ eOutcome = [l \in Lookups |-> "null"]
    /\ integ = [k \in {"googleDrive", "skipTrace", "mortgage", "mockMode"} |-> FALSE]
    /\ ePc = "idle"
    /\ eCalls = [l \in Lookups |-> NotCalled]
    /\ eInvoked = [l \in Lookups |-> 0]
    /\ eResp = NoResponse
    /\ eAborted = FALSE
    /\ eDelivered = {}

InitEnrichOnly ==
    /\ eBody \in Bodies
    /\ eOutcome \in [Lookups -> {"value", "null", "throw"}]
    /\ integ \in [{"googleDrive", "skipTrace", "mortgage", "mockMode"} -> BOOLEAN]
    /\ ePc = "idle"
    /\ eCalls = [l \in Lookups |-> NotCalled]
    /\ eInvoked = [l \in Lookups |-> 0]
    /\ eResp = NoResponse
    /\ eAborted = FALSE
    /\ eDelivered = {}

ErrorResponse(msg) == [status |-> 400, body |-> [error |-> msg]]

SuccessResponse(calls) ==
    [status |-> 200,
     body |-> [image |-> calls["findPropertyImage"].value,
               owner |-> calls["skipTraceOwner"].value,
               mortgage |-> calls["fetchMortgageStatus"].value,
               integrations |-> integ]]

\* POST up to the await of Promise.all: parse, then invoke all three lookups
POST_Begin ==
    /\ ePc = "idle"
    /\ IF parseBodyThrows(eBody)
       THEN /\ eResp' = ErrorResponse(parseBodyMessage(eBody))
            /\ ePc' = "responded"
            /\ UNCHANGED <<eCalls, eInvoked>>
       ELSE /\ eCalls' = [l \in Lookups |->
                            [status |-> "pending",
                             arg |-> LookupArg(l, parseBody(eBody)),
                             signal |-> PassesSignal(l)]]
            /\ eInvoked' = [l \in Lookups |-> eInvoked[l] + 1]
            /\ ePc' = "awaiting"
            /\ UNCHANGED eResp
    /\ UNCHANGED <<eBody, eOutcome, integ, eAborted, eDelivered>>

\* fault variant of JoinFailFast: every outcome is awaited and a failed
\* lookup's field is null
JoinSettleAll(calls, l) ==
    IF \E k \in Lookups : calls[k].status = "pending" THEN NoResponse
    ELSE LET val(k) == IF calls[k].status = "fulfilled" THEN calls[k].value ELSE Null
         IN [status |-> 200,
             body |-> [image |-> val("findPropertyImage"), owner |-> val("skipTraceOwner"),
                       mortgage |-> val("fetchMortgageStatus"), integrations |-> integ]]

\* The join of the three promises. Promise.all rejects with the first
\* rejection and fulfils when all three have fulfilled.
JoinFailFast(calls, l) ==
    IF calls[l].status = "rejected" THEN ErrorResponse(calls[l].error)
    ELSE IF \A k \in Lookups : calls[k].status = "fulfilled" THEN SuccessResponse(calls)
    ELSE NoResponse

\* fault variant of LookupSettle: a lookup that throws is invoked once more
LookupSettleRetry(l) ==
    /\ eCalls[l].status = "pending"
    /\ LET out == IF l \in eDelivered THEN "throw" ELSE eOutcome[l]
           retry == out = "throw" /\ eInvoked[l] < 2
           settled == IF out = "throw"
                      THEN [eCalls[l] EXCEPT !.status = "rejected"] @@ [error |-> LookupError(l)]
                      ELSE [eCalls[l] EXCEPT !.status = "fulfilled"]
                              @@ [value |-> LookupValue(l, eCalls[l].arg, out)]
           calls == IF retry THEN eCalls ELSE [eCalls EXCEPT ![l] = settled]
           resp == IF retry THEN NoResponse
                   ELSE IF out = "throw" THEN ErrorResponse(LookupError(l))
                   ELSE IF \A k \in Lookups : calls[k].status = "fulfilled"
                        THEN SuccessResponse(calls) ELSE NoResponse
       IN /\ eCalls' = calls
          /\ eInvoked' = IF retry THEN [eInvoked EXCEPT ![l] = @ + 1] ELSE eInvoked
          /\ IF ePc = "awaiting" /\ resp # NoResponse
             THEN eResp' = resp /\ ePc' = "responded"
             ELSE UNCHANGED <<eResp, ePc>>
    /\ UNCHANGED <<eBody, eOutcome, integ, eAborted, eDelivered>>

\* One lookup's promise settles; POST resumes if Promise.all settled with it.
LookupSettle(l) ==
    /\ eCalls[l].status = "pending"
    /\ LET out == IF l \in eDelivered THEN "throw" ELSE eOutcome[l]
           settled == IF out = "throw"
                      THEN [eCalls[l] EXCEPT !.status = "rejected"] @@ [error |-> LookupError(l)]
                      ELSE [eCalls[l] EXCEPT !.status = "fulfilled"]
                              @@ [value |-> LookupValue(l, eCalls[l].arg, out)]
           calls == [eCalls EXCEPT ![l] = settled]
           resp == JoinFailFast(calls, l)
       IN /\ eCalls' = calls
          /\ IF ePc = "awaiting" /\ resp # NoResponse
             THEN eResp' = resp /\ ePc' = "responded"
             ELSE UNCHANGED <<eResp, ePc>>
    /\ UNCHANGED <<eBody, eOutcome, integ, eInvoked, eAborted, eDelivered>>

\* The client goes away while the request is in flight: the request's signal
\* fires and reaches the calls that were given it.
ClientAbort ==
    /\ ~eAborted
    /\ ePc = "awaiting"
    /\ eAborted' = TRUE
    /\ eDelivered' = {l \in Lookups : eCalls[l].status = "pending" /\ eCalls[l].signal}
    /\ UNCHANGED <<eBody, eOutcome, integ, ePc, eCalls, eInvoked, eResp>>

(***************************************************************************)
(* The limit parameter                                                     *)
(***************************************************************************)
MaxRawLen == 3
MaxLimit == 100
DefaultLimit == 25

\* characters a raw limit is made of: digits, a blank, signs, a letter
LimitChars == {"0", "1", "2", "9", " ", "-", "+", "x"}

DigitVal(c) == CASE c = "0" -> 0 [] c = "1" -> 1 [] c = "2" -> 2 [] c = "5" -> 5 [] c = "9" -> 9

IsDigit(c) == c \in {"0", "1", "2", "5", "9"}

RECURSIVE SeqsUpTo(_, _)
SeqsUpTo(S, n) ==
    IF n = 0 THEN {<<>>}
    ELSE LET shorter == SeqsUpTo(S, n - 1)
         IN shorter \cup {Append(q, c) : q \in {r \in shorter : Len(r) = n - 1}, c \in S}

RawLimits ==
    {[present |-> FALSE, chars |-> <<>>]}
    \cup {[present |-> TRUE, chars |-> q] : q \in SeqsUpTo(LimitChars, MaxRawLen)}

NaN == [nan |-> TRUE, val |-> 0]
Num(n) == [nan |-> FALSE, val |-> n]

RECURSIVE SkipBlanks(_)
SkipBlanks(q) == IF q # <<>> /\ Head(q) = " " THEN SkipBlanks(Tail(q)) ELSE q

\* the value of the longest run of digits q starts with, after acc
RECURSIVE DigitsValue(_, _)
DigitsValue(q, acc) ==
    IF q # <<>> /\ IsDigit(Head(q))
    THEN DigitsValue(Tail(q), 10 * acc + DigitVal(Head(q)))
    ELSE acc

\* Number.parseInt(value, 10): leading blanks skipped, an optional sign, then
\* the longest run of digits; NaN when there is no digit there
ParseInt10(q) ==
    LET t == SkipBlanks(q)
        neg == t # <<>> /\ Head(t) = "-"
        u == IF t # <<>> /\ Head(t) \in {"-", "+"} THEN Tail(t) ELSE t
    IN IF u = <<>> \/ ~IsDigit(Head(u)) THEN NaN
       ELSE Num(IF neg THEN 0 - DigitsValue(u, 0) ELSE DigitsValue(u, 0))

Min(a, b) == IF a <= b THEN a ELSE b
Max(a, b) == IF a >= b THEN a ELSE b

NoLimit == [defined |-> FALSE, val |-> 0]

\* fault variant of parseLimit: Math.max in place of Math.min
parseLimitMax(value) ==
    IF ~value.present \/ value.chars = <<>> THEN NoLimit
    ELSE LET parsed == ParseInt10(value.chars)
         IN IF parsed.nan \/ parsed.val <= 0 THEN NoLimit
            ELSE [defined |-> TRUE, val |-> Max(parsed.val, MaxLimit)]

\* parseLimit of the properties route; NoLimit is undefined
parseLimit(value) ==
    IF ~value.present \/ value.chars = <<>> THEN NoLimit          \* !value
    ELSE LET parsed == ParseInt10(value.chars)
         IN IF parsed.nan \/ parsed.val <= 0 THEN NoLimit         \* !isFinite || <= 0
            ELSE [defined |-> TRUE, val |-> Min(parsed.val, MaxLimit)]

\* fetchViolations, step 1: default when absent or non-positive, clamp to [1, 100]
NormalizeLimit(limit) ==
    IF ~limit.defined \/ limit.val <= 0 THEN DefaultLimit
    ELSE Min(Max(limit.val, 1), MaxLimit)

LimitIdle ==
    /\ rawLimit = [present |-> FALSE, chars |-> <<>>]
    /\ limitPc = "idle"
    /\ filtersLimit = NoLimit
    /\ effLimit = 0

InitLimitOnly ==
    /\ rawLimit \in RawLimits
    /\ limitPc = "idle"
    /\ filtersLimit = NoLimit
    /\ effLimit = 0

\* GET builds filters.limit and the aggregation normalises it
GET_ParseLimit ==
    /\ limitPc = "idle"
    /\ filtersLimit' = parseLimit(rawLimit)
    /\ effLimit' = NormalizeLimit(parseLimit(rawLimit))
    /\ limitPc' = "done"
    /\ UNCHANGED rawLimit

(***************************************************************************)
(* Aggregation: items, query filter, sort, truncation                      *)
(***************************************************************************)
MaxMerged == 3
MaxDate == 2

\* violationDate as a normalised date value; NoDate when the item has none
NoDate == 0
Dates == NoDate..MaxDate

\* address and description of an item, as character sequences; an empty
\* description is an absent one
Texts ==
    {[address |-> <<"E", "l", "m">>, description |-> <<>>],
     [address |-> <<"O", "a", "k">>, description |-> <<"e", "L", "K">>]}

Queries == {<<>>, <<"O", "A">>, <<"m">>}

Shapes == {[date |-> d, text |-> t] : d \in Dates, t \in Texts}

\* the items one provider returned: ids are unique per source and position
MkItems(src, shapes) ==
    [i \in 1..Len(shapes) |->
        [id |-> <<src, i>>, source |-> src, date |-> shapes[i].date,
         address |-> shapes[i].text.address,
         description |-> shapes[i].text.description]]

LowerChar(c) ==
    CASE c = "E" -> "e" [] c = "L" -> "l" [] c = "K" -> "k" [] c = "O" -> "o"
      [] c = "A" -> "a" [] c = "M" -> "m" [] OTHER -> c

ToLower(q) == [i \in 1..Len(q) |-> LowerChar(q[i])]

Includes(hay, needle) ==
    \E i \in 0..(Len(hay) - Len(needle)) : SubSeq(hay, i + 1, i + Len(needle)) = needle

\* case-insensitive substring match across address and description
MatchesQuery(item, query) ==
    \/ Includes(ToLower(item.address), ToLower(query))
    \/ Includes(ToLower(item.description), ToLower(query))

ApplyQuery(items, query) ==
    IF query = <<>> THEN items
    ELSE SelectSeq(items, LAMBDA it : MatchesQuery(it, query))

\* fault variant of compareByDate: dates ascending
compareByDateAscending(a, b) ==
    IF a.date = NoDate /\ b.date = NoDate THEN 0
    ELSE IF a.date = NoDate THEN 1
    ELSE IF b.date = NoDate THEN 0 - 1
    ELSE a.date - b.date

\* the sort's comparator: negative when a goes first; date descending,
\* items without a date last
compareByDate(a, b) ==
    IF a.date = NoDate /\ b.date = NoDate THEN 0
    ELSE IF a.date = NoDate THEN 1
    ELSE IF b.date = NoDate THEN 0 - 1
    ELSE b.date - a.date

\* x inserted after every element that does not sort after it (stable)
InsertSorted(sorted, x) ==
    LET later == {k \in 1..Len(sorted) : compareByDate(sorted[k], x) > 0}
        at == IF later = {} THEN Len(sorted) + 1
              ELSE CHOOSE k \in later : \A m \in later : k <= m
    IN SubSeq(sorted, 1, at - 1) \o <<x>> \o SubSeq(sorted, at, Len(sorted))

RECURSIVE SortFrom(_, _)
SortFrom(sorted, rest) ==
    IF rest = <<>> THEN sorted
    ELSE SortFrom(InsertSorted(sorted, Head(rest)), Tail(rest))

SortByDate(items) == SortFrom(<<>>, items)

Truncate(items, limit) == SubSeq(items, 1, Min(limit, Len(items)))

\* fault variant of Pipeline: truncated before it is filtered and sorted
PipelineTruncateFirst(items, query, limit) ==
    SortByDate(ApplyQuery(Truncate(items, limit), query))

\* fetchViolations, steps 5 and 6, on the merged items
Pipeline(items, query, limit) == Truncate(SortByDate(ApplyQuery(items, query)), limit)

SortLimits == {1, 2, DefaultLimit}

SortIdle ==
    /\ sItems = <<>>
    /\ sQuery = <<>>
    /\ sLimit = DefaultLimit
    /\ sOut = <<>>
    /\ sPc = "idle"

InitSortOnly ==
    /\ sItems \in {MkItems("A", q) : q \in SeqsUpTo(Shapes, MaxMerged)}
    /\ sQuery \in Queries
    /\ sLimit \in SortLimits
    /\ sOut = <<>>
    /\ sPc = "idle"

FetchPipeline ==
    /\ sPc = "idle"
    /\ sOut' = Pipeline(sItems, sQuery, sLimit)
    /\ sPc' = "done"
    /\ UNCHANGED <<sItems, sQuery, sLimit>>


(***************************************************************************)
(* Provider registry and adapters                                          *)
(***************************************************************************)
MaxItems == 1

\* registered providers, in registration order
Providers == <<"A", "B", "C">>
ProviderIds == {Providers[i] : i \in 1..Len(Providers)}

\* coverage entries {state, city?}; provider C declares nationwide coverage
Jurisdiction(p) ==
    CASE p = "A" -> {[state |-> "CA", city |-> "LA"]}
      [] p = "B" -> {[state |-> "TX", city |-> Undefined]}
      [] p = "C" -> {}

Nationwide(p) == p = "C"

\* an entry matches when it agrees with the state and the city the filters give
Covers(entry, filters) ==
    /\ ~Truthy(filters.state) \/ entry.state = filters.state
    /\ ~Truthy(filters.city) \/ entry.city = Undefined \/ entry.city = filters.city

\* candidates for a filter set, in registration order
providersCoveringFilters(filters) ==
    SelectSeq(Providers,
              LAMBDA p : Nationwide(p) \/ \E e \in Jurisdiction(p) : Covers(e, filters))

ElmText == [address |-> <<"E", "l", "m">>, description |-> <<>>]
OakText == [address |-> <<"O", "a", "k">>, description |-> <<"e", "L", "K">>]

\* what an adapter returns per item: a dated record or an undated one
AdapterShapes == {[date |-> 1, text |-> ElmText], [date |-> NoDate, text |-> OakText]}

\* an adapter either throws or returns a sequence of records
AdapterBehaviours ==
    {[throws |-> TRUE, shapes |-> <<>>]}
    \cup {[throws |-> FALSE, shapes |-> q] : q \in SeqsUpTo(AdapterShapes, MaxItems)}

\* the fixture of mock mode
mockViolations ==
    MkItems("mock", <<[date |-> 2, text |-> ElmText],
                      [date |-> NoDate, text |-> OakText],
                      [date |-> 1, text |-> OakText]>>)

(***************************************************************************)
(* Violations endpoint                                                     *)
(***************************************************************************)
GetLimits ==
    {[present |-> FALSE, chars |-> <<>>],
     [present |-> TRUE, chars |-> <<"1">>],
     [present |-> TRUE, chars |-> <<"2">>]}

GetQueries == {<<>>, <<"O", "A">>}

Requests ==
    [limit : GetLimits, state : {Undefined, "CA", "TX"}, city : {Undefined, "SF"},
     query : GetQueries]

NoResult == [items |-> <<>>, providersQueried |-> {}, providersMatched |-> {}, none |-> TRUE]

EmptySlot == [status |-> "none", items |-> <<>>]

\* filters as GET builds them from the query string
Filters(req) ==
    [city |-> req.city, state |-> req.state, query |-> req.query,
     limit |-> parseLimit(req.limit)]

Range(q) == {q[i] : i \in 1..Len(q)}

RECURSIVE Flatten(_)
Flatten(qs) == IF qs = <<>> THEN <<>> ELSE Head(qs) \o Flatten(Tail(qs))

\* fault variant of MergeSlots: items appended as each call settles
MergeByArrival(cands, sl, arr) ==
    Flatten([i \in 1..Len(arr) |-> sl[arr[i]].items])

\* the items of the fulfilled slots, slot by slot in candidate order (the
\* settle order arr plays no part)
MergeSlots(cands, sl, arr) ==
    Flatten([i \in 1..Len(cands) |-> sl[cands[i]].items])

\* fault variant of MatchedProviders: recorded whenever a call settles
MatchedEverySettled(cands, sl) ==
    {p \in Range(cands) : sl[p].status \in {"fulfilled", "rejected"}}

\* providers whose call succeeded with at least one item
MatchedProviders(cands, sl) ==
    {p \in Range(cands) : sl[p].status = "fulfilled" /\ sl[p].items # <<>>}

\* fetchViolations, steps 4 to 7, once every candidate's call has settled
FetchResult(filters, sl, arr) ==
    LET cands == providersCoveringFilters(filters)
    IN [items |-> Pipeline(MergeSlots(cands, sl, arr), filters.query,
                           NormalizeLimit(filters.limit)),
        providersQueried |-> Range(cands),
        providersMatched |-> MatchedProviders(cands, sl)]

MockResponse ==
    [status |-> 200,
     body |-> [items |-> mockViolations, providersQueried |-> {"mock"},
               providersMatched |-> {"mock"}]]

\* fault variant of Respond: the flag read the wrong way round
RespondInverted(result) ==
    IF ~mockMode THEN MockResponse ELSE [status |-> 200, body |-> result]

\* what GET returns: the fixture in mock mode, else fetchViolations' result
Respond(result) ==
    IF mockMode THEN MockResponse ELSE [status |-> 200, body |-> result]

AggIdle ==
    /\ mockMode = FALSE
    /\ adapters = [p \in ProviderIds |-> [throws |-> TRUE, shapes |-> <<>>]]
    /\ gReq = [limit |-> [present |-> FALSE, chars |-> <<>>], state |-> Undefined,
               city |-> Undefined, query |-> <<>>]
    /\ gPc = "idle"
    /\ slots = [p \in ProviderIds |-> EmptySlot]
    /\ arrival = <<>>
    /\ gInvoked = [p \in ProviderIds |-> 0]
    /\ fvResult = NoResult
    /\ gResp = NoResponse
    /\ prevResp = NoResponse
    /\ prevArrival = <<>>

InitAggOnly ==
    /\ mockMode \in BOOLEAN
    /\ adapters \in [ProviderIds -> AdapterBehaviours]
    /\ gReq \in Requests
    /\ gPc = "idle"
    /\ slots = [p \in ProviderIds |-> EmptySlot]
    /\ arrival = <<>>
    /\ gInvoked = [p \in ProviderIds |-> 0]
    /\ fvResult = NoResult
    /\ gResp = NoResponse
    /\ prevResp = NoResponse
    /\ prevArrival = <<>>

\* GET up to the await: in mock mode it returns at once; otherwise
\* fetchViolations queries every candidate's adapter, all before any is awaited
GET_Begin ==
    /\ gPc = "idle"
    /\ IF mockMode
       THEN /\ gResp' = Respond(NoResult)
            /\ gPc' = "done"
            /\ UNCHANGED <<slots, gInvoked>>
       ELSE LET cands == Range(providersCoveringFilters(Filters(gReq)))
            IN /\ slots' = [p \in ProviderIds |->
                              IF p \in cands THEN [status |-> "pending", items |-> <<>>]
                              ELSE EmptySlot]
               /\ gInvoked' = [p \in ProviderIds |->
                                 IF p \in cands THEN gInvoked[p] + 1 ELSE gInvoked[p]]
               /\ gPc' = "fetching"
               /\ UNCHANGED gResp
    /\ UNCHANGED <<mockMode, adapters, gReq, arrival, fvResult, prevResp, prevArrival>>

\* One adapter call settles into its slot; when it is the last one the join
\* completes, fetchViolations resolves and GET returns its result.
AdapterSettle(p) ==
    /\ gPc = "fetching"
    /\ slots[p].status = "pending"
    /\ LET sl == [slots EXCEPT ![p] =
                    IF adapters[p].throws THEN [status |-> "rejected", items |-> <<>>]
                    ELSE [status |-> "fulfilled", items |-> MkItems(p, adapters[p].shapes)]]
           arr == Append(arrival, p)
           result == FetchResult(Filters(gReq), sl, arr)
       IN /\ slots' = sl
          /\ arrival' = arr
          /\ IF \A q \in ProviderIds : sl[q].status # "pending"
             THEN /\ fvResult' = result
                  /\ gResp' = Respond(result)
                  /\ gPc' = "done"
             ELSE UNCHANGED <<fvResult, gResp, gPc>>
    /\ UNCHANGED <<mockMode, adapters, gReq, gInvoked, prevResp, prevArrival>>

\* the same request is made a second time against the same adapters
GET_Again ==
    /\ gPc = "done"
    /\ prevResp = NoResponse
    /\ prevResp' = gResp
    /\ prevArrival' = arrival
    /\ gPc' = "idle"
    /\ slots' = [p \in ProviderIds |-> EmptySlot]
    /\ arrival' = <<>>
    /\ gInvoked' = [p \in ProviderIds |-> 0]
    /\ fvResult' = NoResult
    /\ gResp' = NoResponse
    /\ UNCHANGED <<mockMode, adapters, gReq>>


(***************************************************************************)
(* Home screen and search form                                             *)
(***************************************************************************)
FilterKeys == {"query", "city", "state", "status", "startDate", "endDate", "limit"}

\* the limit select's option values, as the strings the change event carries
limitOptions == {<<"2", "5">>, <<"5", "0">>, <<"1", "0", "0">>}

\* values the form's inputs are given; the limit is parsed from its option
FieldValues(key) ==
    CASE key = "query" -> {"", "elm"}
      [] key = "city" -> {"", "LA"}
      [] key = "state" -> {"", "CA"}
      [] key = "status" -> {"", "OPEN"}
      [] key = "startDate" -> {"", "2024-01-01"}
      [] key = "endDate" -> {"", "2024-12-31"}
      [] key = "limit" -> {ParseInt10(o).val : o \in limitOptions}

initialFilters ==
    [query |-> "", city |-> "", state |-> "", status |-> "", startDate |-> "",
     endDate |-> "", limit |-> DefaultLimit]

\* the literal handleReset applies
resetFilters ==
    [query |-> "", city |-> "", state |-> "", status |-> "", startDate |-> "",
     endDate |-> "", limit |-> 25]

NoItem == [id |-> "none"]

\* rows of the violations table: two rows with the same address fields and
\* different ids, and two versions of the row with id "A:1"
Items ==
    {[id |-> "A:1", address |-> "12 Elm St", city |-> "LA", state |-> "CA", zip |-> "90001"],
     [id |-> "A:1", address |-> "12 Elm Street", city |-> "LA", state |-> "CA", zip |-> "90001"],
     [id |-> "B:7", address |-> "12 Elm St", city |-> "LA", state |-> "CA", zip |-> "90001"],
     [id |-> "C:3", address |-> "9 Oak Ave", city |-> Undefined, state |-> Undefined,
      zip |-> Undefined]}

NoKey == <<>>

\* the useSWR key of the enrichment request: null when nothing is selected
enrichmentKey(sel) ==
    IF sel = NoItem THEN NoKey
    ELSE <<"enrich", sel.address, OrEmpty(sel.city), OrEmpty(sel.state), OrEmpty(sel.zip)>>

EnrichKeys == {enrichmentKey(item) : item \in Items}

\* v || undefined
OrUndefined(v) == IF v = "" THEN Undefined ELSE v

\* the payload enrichmentFetcher posts for a key
enrichmentFetcher(key) ==
    [address |-> key[2], city |-> OrUndefined(key[3]), state |-> OrUndefined(key[4]),
     postalCode |-> OrUndefined(key[5])]

NoData == [none |-> TRUE]

\* the PropertyEnrichment the endpoint returns for a payload
DataFor(payload) == [fetchedFor |-> payload]

EmptyEntry == [data |-> NoData, error |-> FALSE]

SWRStoreUnderCurrent(requestKey, currentKey) ==
    IF currentKey = NoKey THEN requestKey ELSE currentKey

\* the cache entry a response is written to: the one of the key it was
\* requested with
SWRStoreKey(requestKey, currentKey) == requestKey

\* what useSWR returns as data for the key being rendered
swrData(key) == IF key = NoKey THEN NoData ELSE swrCache[key].data

\* the enrichment prop of PropertyDetails
ShownEnrichment == IF selected # NoItem THEN swrData(enrichmentKey(selected)) ELSE NoData

UiIdle ==
    /\ uiFilters = initialFilters
    /\ localFilters = initialFilters
    /\ selected = NoItem
    /\ lastClicked = NoItem
    /\ swrCache = [k \in EnrichKeys |-> EmptyEntry]
    /\ swrInflight = [k \in EnrichKeys |-> NoItem]

handleSelectAlways(item) ==
    /\ selected' = item
    /\ lastClicked' = item
    /\ UNCHANGED <<uiFilters, localFilters, swrCache, swrInflight>>

\* a row is clicked
handleSelect(item) ==
    /\ selected' = IF selected # NoItem /\ selected.id = item.id THEN NoItem ELSE item
    /\ lastClicked' = item
    /\ UNCHANGED <<uiFilters, localFilters, swrCache, swrInflight>>

\* onSearch of HomeScreen, and SearchForm's effect on the filters prop
onSearch(next) ==
    /\ uiFilters' = next
    /\ selected' = NoItem
    /\ localFilters' = next
    /\ UNCHANGED <<lastClicked, swrCache, swrInflight>>

HomeSearches == {initialFilters, [initialFilters EXCEPT !.state = "CA"]}

\* the form runs a search
HomeSearch == \E next \in HomeSearches : onSearch(next)

\* useSWR calls the fetcher for the key being rendered, unless the key is
\* null or a request for it is already pending
SWR_Fetch ==
    LET key == enrichmentKey(selected)
    IN /\ key # NoKey
       /\ swrInflight[key] = NoItem
       /\ swrInflight' = [swrInflight EXCEPT ![key] = selected]
       /\ UNCHANGED <<uiFilters, localFilters, selected, lastClicked, swrCache>>

\* the response to a pending request arrives, whatever is selected by then
SWR_Settle(k, ok) ==
    /\ swrInflight[k] # NoItem
    /\ swrInflight' = [swrInflight EXCEPT ![k] = NoItem]
    /\ LET at == SWRStoreKey(k, enrichmentKey(selected))
       IN swrCache' = [swrCache EXCEPT ![at] =
                          IF ok THEN [data |-> DataFor(enrichmentFetcher(k)), error |-> FALSE]
                          ELSE [@ EXCEPT !.error = TRUE]]
    /\ UNCHANGED <<uiFilters, localFilters, selected, lastClicked>>

updateFieldLive(key, value) ==
    /\ localFilters' = [localFilters EXCEPT ![key] = value]
    /\ uiFilters' = [localFilters EXCEPT ![key] = value]
    /\ UNCHANGED <<selected, lastClicked, swrCache, swrInflight>>

\* an input of the form changes
updateField(key, value) ==
    /\ localFilters' = [localFilters EXCEPT ![key] = value]
    /\ UNCHANGED <<uiFilters, selected, lastClicked, swrCache, swrInflight>>

handleSubmit == onSearch(localFilters)

handleReset == onSearch(resetFilters)

(***************************************************************************)
(* Specifications                                                          *)
(***************************************************************************)
Init == InitAggOnly /\ EnrichIdle /\ LimitIdle /\ SortIdle /\ UiIdle

Next ==
    \/ GET_Begin /\ UNCHANGED <<enrichVars, limitVars, sortVars, uiVars>>
    \/ \E p \in ProviderIds : AdapterSettle(p) /\ UNCHANGED <<enrichVars, limitVars, sortVars, uiVars>>
    \/ GET_Again /\ UNCHANGED <<enrichVars, limitVars, sortVars, uiVars>>

Spec == Init /\ [][Next]_vars

InitEnrich == InitEnrichOnly /\ LimitIdle /\ SortIdle /\ AggIdle /\ UiIdle

NextEnrich ==
    \/ POST_Begin /\ UNCHANGED <<limitVars, sortVars, aggVars, uiVars>>
    \/ \E l \in Lookups : LookupSettle(l) /\ UNCHANGED <<limitVars, sortVars, aggVars, uiVars>>
    \/ ClientAbort /\ UNCHANGED <<limitVars, sortVars, aggVars, uiVars>>

SpecEnrich == InitEnrich /\ [][NextEnrich]_vars

InitLimit == InitLimitOnly /\ EnrichIdle /\ SortIdle /\ AggIdle /\ UiIdle

NextLimit == GET_ParseLimit /\ UNCHANGED <<enrichVars, sortVars, aggVars, uiVars>>

InitSort == InitSortOnly /\ EnrichIdle /\ LimitIdle /\ AggIdle /\ UiIdle

NextSort == FetchPipeline /\ UNCHANGED <<enrichVars, limitVars, aggVars, uiVars>>

SpecSort == InitSort /\ [][NextSort]_vars

SpecLimit == InitLimit /\ [][NextLimit]_vars

\* no enrichment request is made
EnrichOff ==
    /\ eBody = [kind |-> "null", address |-> Undefined, city |-> Undefined, state |-> Undefined]
    /\ eOutcome = [l \in Lookups |-> "null"]
    /\ integ = [k \in {"googleDrive", "skipTrace", "mortgage", "mockMode"} |-> FALSE]
    /\ ePc = "off"
    /\ eCalls = [l \in Lookups |-> NotCalled]
    /\ eInvoked = [l \in Lookups |-> 0]
    /\ eResp = NoResponse
    /\ eAborted = FALSE
    /\ eDelivered = {}

\* no violations request is made
AggOff ==
    /\ mockMode = FALSE
    /\ adapters = [p \in ProviderIds |-> [throws |-> TRUE, shapes |-> <<>>]]
    /\ gReq = [limit |-> [present |-> FALSE, chars |-> <<>>], state |-> Undefined,
               city |-> Undefined, query |-> <<>>]
    /\ gPc = "off"
    /\ slots = [p \in ProviderIds |-> EmptySlot]
    /\ arrival = <<>>
    /\ gInvoked = [p \in ProviderIds |-> 0]
    /\ fvResult = NoResult
    /\ gResp = NoResponse
    /\ prevResp = NoResponse
    /\ prevArrival = <<>>

\* either fan-out: one enrichment request, or one violations request
InitFanOut ==
    /\ LimitIdle /\ SortIdle /\ UiIdle
    /\ (InitEnrichOnly /\ AggOff) \/ (InitAggOnly /\ EnrichOff)

NextFanOut == NextEnrich \/ Next

SpecFanOut == InitFanOut /\ [][NextFanOut]_vars

InitHome == UiIdle /\ EnrichIdle /\ LimitIdle /\ SortIdle /\ AggIdle

NextHome ==
    \/ \E item \in Items : handleSelect(item) /\ UNCHANGED <<enrichVars, limitVars, sortVars, aggVars>>
    \/ HomeSearch /\ UNCHANGED <<enrichVars, limitVars, sortVars, aggVars>>
    \/ SWR_Fetch /\ UNCHANGED <<enrichVars, limitVars, sortVars, aggVars>>
    \/ \E k \in EnrichKeys, ok \in BOOLEAN :
           SWR_Settle(k, ok) /\ UNCHANGED <<enrichVars, limitVars, sortVars, aggVars>>

SpecHome == InitHome /\ [][NextHome]_vars

InitForm == UiIdle /\ EnrichIdle /\ LimitIdle /\ SortIdle /\ AggIdle

NextForm ==
    \/ \E key \in FilterKeys : \E value \in FieldValues(key) :
           updateField(key, value) /\ UNCHANGED <<enrichVars, limitVars, sortVars, aggVars>>
    \/ handleSubmit /\ UNCHANGED <<enrichVars, limitVars, sortVars, aggVars>>
    \/ handleReset /\ UNCHANGED <<enrichVars, limitVars, sortVars, aggVars>>

SpecForm == InitForm /\ [][NextForm]_vars

(***************************************************************************)
(* Enrichment endpoint: properties                                         *)
(***************************************************************************)
ValidBody == eBody.kind = "object" /\ Truthy(eBody.address)

\* the field of the success body that carries a lookup's result
FieldOf(l) ==
    IF l = "findPropertyImage" THEN "image"
    ELSE IF l = "skipTraceOwner" THEN "owner" ELSE "mortgage"

\* exactly lookup f rejected and the other two fulfilled
OnlyFailed(f) ==
    /\ eCalls[f].status = "rejected"
    /\ \A k \in Lookups \ {f} : eCalls[k].status = "fulfilled"

\* C1 (as claimed): the three lookups are joined settle-all. For a valid
\* request, once exactly one lookup has thrown and the other two have
\* succeeded, the caller holds a success result whose field for the failed
\* lookup is null and whose other two fields carry the values the two
\* successful lookups returned.
C1_SettleAllJoin ==
    \A f \in Lookups :
        (ValidBody /\ OnlyFailed(f)) =>
            /\ eResp.status = 200
            /\ eResp.body[FieldOf(f)] = Null
            /\ \A k \in Lookups \ {f} : eResp.body[FieldOf(k)] = eCalls[k].value

\* C2: a request whose address is missing or empty is answered with the
\* validation error (status 400) and none of the three lookups is ever
\* invoked for it.
C2_MissingAddressFailsFast ==
    (eBody.kind = "object" /\ ~Truthy(eBody.address)) =>
        /\ \A l \in Lookups : eInvoked[l] = 0 /\ eCalls[l] = NotCalled
        /\ ePc # "awaiting"
        /\ ePc = "responded" => eResp = ErrorResponse("address is required")

C2_Witness ==
    /\ eBody.kind = "object" /\ eBody.address = ""
    /\ ePc = "responded"
    /\ eResp.status = 400

\* C3 (as claimed): the operation fails as a whole only when the address is
\* missing: every response to a request with a non-empty address is a
\* PropertyEnrichment (status 200), whatever the lookups did.
C3_FailsOnlyOnMissingAddress ==
    (ValidBody /\ eResp # NoResponse) => eResp.status = 200

\* C9 (as claimed): once the request's cancellation signal has fired, every
\* lookup still outstanding has been given the signal.
C9_SignalReachesOutstanding ==
    eAborted => \A l \in Lookups : eCalls[l].status = "pending" => l \in eDelivered

(***************************************************************************)
(* The limit parameter: properties                                         *)
(***************************************************************************)
\* C7: the effective limit is 25 when the raw limit is absent, unparseable
\* or non-positive, and otherwise the parsed value capped at 100; it is always
\* an integer in 1..100, and every raw limit yields one (no input makes the
\* parse fail).
C7_LimitNormalization ==
    limitPc = "done" =>
        LET parsed == ParseInt10(rawLimit.chars)
        IN /\ effLimit \in 1..MaxLimit
           /\ effLimit = IF ~rawLimit.present \/ parsed.nan \/ parsed.val <= 0
                         THEN DefaultLimit
                         ELSE Min(parsed.val, MaxLimit)

\* a raw limit above the cap has been normalised to the cap
C7_Witness ==
    /\ limitPc = "done"
    /\ rawLimit.present /\ rawLimit.chars = <<"2", "9", "9">>
    /\ effLimit = MaxLimit

(***************************************************************************)
(* Sorting: properties                                                     *)
(***************************************************************************)
\* position of the item with this id in the merged input
InputPos(id) == CHOOSE k \in 1..Len(sItems) : sItems[k].id = id

UndatedLastAndStable ==
    \A i, j \in 1..Len(sOut) :
        i < j =>
            /\ sOut[i].date = NoDate => sOut[j].date = NoDate
            /\ (sOut[i].date = NoDate /\ sOut[j].date = NoDate) =>
                   InputPos(sOut[i].id) < InputPos(sOut[j].id)

\* C6 (as claimed): in every result the dated items are in strictly
\* descending date order, every undated item comes after all dated items, and
\* undated items keep the relative order of the merged input.
C6_StrictlyDescending ==
    sPc = "done" =>
        /\ \A i, j \in 1..Len(sOut) :
               (i < j /\ sOut[i].date # NoDate /\ sOut[j].date # NoDate) =>
                   sOut[i].date > sOut[j].date
        /\ UndatedLastAndStable

\* C6 (amended): in every result the dated items are in descending date
\* order, items of equal date being allowed next to each other; every undated
\* item comes after all dated items, and undated items keep the relative
\* order of the merged input.
C6_DescendingUndatedLast ==
    sPc = "done" =>
        /\ \A i, j \in 1..Len(sOut) :
               (i < j /\ sOut[i].date # NoDate /\ sOut[j].date # NoDate) =>
                   sOut[i].date >= sOut[j].date
        /\ UndatedLastAndStable

\* an undated item that led the input now follows two dated items of
\* different dates that the sort had to swap
C6_Witness ==
    /\ sPc = "done"
    /\ Len(sItems) = 3 /\ Len(sOut) = 3
    /\ sItems[1].date = NoDate /\ sItems[2].date = 1 /\ sItems[3].date = 2
    /\ sOut = <<sItems[3], sItems[2], sItems[1]>>

(***************************************************************************)
(* Violations endpoint: properties                                         *)
(***************************************************************************)
\* clamp(limit, 1, 100) with the default of 25, for this request
RequestLimit == NormalizeLimit(parseLimit(gReq.limit))

Candidates == Range(providersCoveringFilters(Filters(gReq)))

\* C4 (as claimed): the result returned to the caller has at most
\* clamp(limit, 1, 100) items and providersMatched is a subset of
\* providersQueried, on the aggregation path and in mock mode alike.
C4_BoundedAndMatchedSubset ==
    gPc = "done" =>
        /\ Len(gResp.body.items) <= RequestLimit
        /\ gResp.body.providersMatched \subseteq gResp.body.providersQueried

\* items the adapters that succeeded returned and that pass the query filter
SurvivingItems ==
    {it \in UNION {Range(slots[p].items) : p \in Candidates} :
        gReq.query = <<>> \/ MatchesQuery(it, gReq.query)}

\* C5: when candidate adapters throw, the call still returns normally once
\* every call has settled, whatever the order of completions and failures;
\* the items the other adapters returned appear in the result (all of those
\* passing the query filter, up to the limit, none twice), and each failing
\* provider is in providersQueried and absent from providersMatched.
C5_AdapterFailureContained ==
    (~mockMode /\ gPc # "idle") =>
        /\ (\A p \in Candidates : slots[p].status # "pending") =>
               gPc = "done" /\ gResp.status = 200
        /\ gPc = "done" =>
               /\ Range(gResp.body.items) \subseteq SurvivingItems
               /\ Len(gResp.body.items) = Min(RequestLimit, Cardinality(SurvivingItems))
               /\ Cardinality(Range(gResp.body.items)) = Len(gResp.body.items)
               /\ \A p \in Candidates :
                      slots[p].status = "rejected" =>
                          /\ p \in gResp.body.providersQueried
                          /\ p \notin gResp.body.providersMatched

\* exactly one of three candidates threw, it was not the last to settle, and
\* the items of the other two are both in the result
C5_Witness ==
    /\ ~mockMode /\ gPc = "done"
    /\ Candidates = ProviderIds
    /\ Cardinality({p \in ProviderIds : slots[p].status = "rejected"}) = 1
    /\ slots[arrival[1]].status = "rejected"
    /\ Len(gResp.body.items) = 2
    /\ Cardinality(gResp.body.providersMatched) = 2

\* C8: a second call with the same filters against adapters that respond
\* the same yields the same result as the first (same items in the same
\* order, same providersQueried, same providersMatched), whatever the order
\* in which the adapter calls completed in either call.
C8_Deterministic ==
    (gPc = "done" /\ prevResp # NoResponse) => gResp = prevResp

\* two calls whose adapter calls completed in different orders, with items
\* of equal sort rank coming from different providers
C8_Witness ==
    /\ ~mockMode /\ gPc = "done" /\ prevResp # NoResponse
    /\ arrival # prevArrival
    /\ Len(gResp.body.items) >= 2
    /\ \E i, j \in 1..Len(gResp.body.items) :
           /\ i < j
           /\ gResp.body.items[i].date = gResp.body.items[j].date
           /\ gResp.body.items[i].source # gResp.body.items[j].source

\* C10: in mock mode no provider adapter is invoked and the response is the
\* fixture with providersQueried = providersMatched = {"mock"}, whatever the
\* filters; otherwise the response is what fetchViolations resolved with.
C10_MockBypass ==
    /\ mockMode => \A p \in ProviderIds : gInvoked[p] = 0 /\ slots[p] = EmptySlot
    /\ gPc = "done" =>
           /\ gResp.status = 200
           /\ IF mockMode
              THEN /\ gResp.body.items = mockViolations
                   /\ gResp.body.providersQueried = {"mock"}
                   /\ gResp.body.providersMatched = {"mock"}
              ELSE /\ fvResult # NoResult
                   /\ gResp.body = fvResult

\* mock mode answered a request that carries a state, a query and a limit
C10_Witness ==
    /\ mockMode /\ gPc = "done"
    /\ gReq.state = "CA" /\ gReq.query # <<>> /\ gReq.limit.present
    /\ gResp.body.providersQueried = {"mock"}

(***************************************************************************)
(* Both fan-outs: properties                                               *)
(***************************************************************************)
\* C11: no retries. For a valid enrichment request each of the three lookups
\* is invoked exactly once: all three are invoked together, before any of
\* them has settled, and a lookup that failed is not invoked again. For a
\* fetchViolations call each candidate adapter is queried exactly once and no
\* other adapter is queried.
C11_NoRetries ==
    /\ \A l \in Lookups :
           /\ eInvoked[l] <= 1
           /\ eCalls[l].status = "none" <=> eInvoked[l] = 0
           /\ (ValidBody /\ ePc \in {"awaiting", "responded"}) => eInvoked[l] = 1
           /\ \A k \in Lookups : eInvoked[l] = eInvoked[k]
    /\ (gPc \in {"fetching", "done"} /\ ~mockMode) =>
           \A p \in ProviderIds : gInvoked[p] = IF p \in Candidates THEN 1 ELSE 0

\* one lookup has failed, the other two have succeeded, the request has been
\* answered, and each lookup was invoked once
C11_Witness ==
    /\ ePc = "responded" /\ ValidBody
    /\ eCalls["fetchMortgageStatus"].status = "rejected"
    /\ eCalls["findPropertyImage"].status = "fulfilled"
    /\ eCalls["skipTraceOwner"].status = "fulfilled"
    /\ \A l \in Lookups : eInvoked[l] = 1

(***************************************************************************)
(* Filter, sort, truncation: properties                                    *)
(***************************************************************************)
\* positions of the merged input whose item passes the query filter
MatchingPositions ==
    {k \in 1..Len(sItems) : sQuery = <<>> \/ MatchesQuery(sItems[k], sQuery)}

\* x sorts strictly before y: dated before undated, later date before earlier
SortsBefore(x, y) ==
    x.date # NoDate /\ (y.date = NoDate \/ x.date > y.date)

\* C12: filter, sort and truncation apply in that order after the merge.
\* Every returned item is an item of the merged input that matches the query
\* as a case-insensitive substring of its address or description; the result
\* holds min(limit, number of matching items) items, none twice, in sorted
\* order; and no matching item that was left out sorts before a returned one.
C12_FilterSortTruncate ==
    sPc = "done" =>
        /\ \A i \in 1..Len(sOut) : \E k \in MatchingPositions : sOut[i] = sItems[k]
        /\ Len(sOut) = Min(sLimit, Cardinality(MatchingPositions))
        /\ Cardinality(Range(sOut)) = Len(sOut)
        /\ \A i, j \in 1..Len(sOut) : i < j => ~SortsBefore(sOut[j], sOut[i])
        /\ \A k \in MatchingPositions :
               sItems[k] \notin Range(sOut) =>
                   \A i \in 1..Len(sOut) : ~SortsBefore(sItems[k], sOut[i])

\* a query in another letter case, a limit of one, a non-matching item that
\* leads the input, and of the two matching items the later-dated one returned
C12_Witness ==
    /\ sPc = "done"
    /\ sQuery = <<"O", "A">> /\ sLimit = 1
    /\ Len(sItems) = 3
    /\ sItems[1].address = <<"E", "l", "m">> /\ sItems[1].date = 2
    /\ sItems[2].address = <<"O", "a", "k">> /\ sItems[2].date = 1
    /\ sItems[3].address = <<"O", "a", "k">> /\ sItems[3].date = 2
    /\ sOut = <<sItems[3]>>

(***************************************************************************)
(* Enrichment endpoint: shape of the response                              *)
(***************************************************************************)
\* C13: the response is all or nothing. It is either a success body with
\* all of image, owner, mortgage and the integrations map (googleDrive,
\* skipTrace, mortgage, mockMode), each field being what its lookup returned,
\* or a status-400 body with an error message alone. A missing address, an
\* unparseable body and the rejection of any lookup all end in the 400 body.
C13_AllOrNothing ==
    /\ eResp # NoResponse =>
           \/ /\ eResp.status = 200
              /\ DOMAIN eResp.body = {"image", "owner", "mortgage", "integrations"}
              /\ DOMAIN eResp.body.integrations =
                     {"googleDrive", "skipTrace", "mortgage", "mockMode"}
              /\ \A l \in Lookups :
                     /\ eCalls[l].status = "fulfilled"
                     /\ eResp.body[FieldOf(l)] = eCalls[l].value
           \/ /\ eResp.status = 400
              /\ DOMAIN eResp.body = {"error"}
    /\ (ePc = "responded" /\ ~ValidBody) => eResp.status = 400
    /\ (\E l \in Lookups : eCalls[l].status = "rejected") => eResp.status = 400

\* the image lookup had succeeded when the owner lookup was rejected: the
\* answer is the 400 body with that error and nothing else
C13_Witness ==
    /\ ePc = "responded" /\ ValidBody
    /\ eCalls["findPropertyImage"].status = "fulfilled"
    /\ eCalls["skipTraceOwner"].status = "rejected"
    /\ eCalls["fetchMortgageStatus"].status = "pending"
    /\ eResp = ErrorResponse(LookupError("skipTraceOwner"))

(***************************************************************************)
(* Home screen and search form: properties                                 *)
(***************************************************************************)
\* C14: the enrichment the details panel is given belongs to the selected
\* row. It is given data only while a row is selected, and that data was
\* fetched with the payload of the selected row's key (address, city, state,
\* zip), in whatever order responses arrive; and every enrichment request was
\* issued for a row selected at the time, with that row's key.
C14_EnrichmentOfSelected ==
    /\ selected = NoItem => ShownEnrichment = NoData
    /\ ShownEnrichment # NoData =>
           /\ selected # NoItem
           /\ ShownEnrichment.fetchedFor = enrichmentFetcher(enrichmentKey(selected))
           /\ ShownEnrichment.fetchedFor.address = selected.address
    /\ \A k \in EnrichKeys :
           swrInflight[k] # NoItem => enrichmentKey(swrInflight[k]) = k

\* the Oak row is selected and shown its own data while the data fetched for
\* the Elm row sits in the cache and another request for the Elm key, issued
\* when that row was selected, is still pending
C14_Witness ==
    LET oak == CHOOSE it \in Items : it.id = "C:3"
        elm == CHOOSE it \in Items : it.id = "B:7"
    IN /\ selected = oak
       /\ ShownEnrichment = DataFor(enrichmentFetcher(enrichmentKey(oak)))
       /\ swrCache[enrichmentKey(elm)].data = DataFor(enrichmentFetcher(enrichmentKey(elm)))
       /\ swrInflight[enrichmentKey(elm)] = elm

\* C15: the selected row is always either none or the row clicked most
\* recently; a click on a row whose id equals the selected row's id clears
\* the selection, a click on any other row selects that row, and every
\* search clears the selection.
C15_SelectionMachine ==
    [][ /\ selected' = NoItem \/ selected' = lastClicked'
        /\ \A item \in Items :
               handleSelect(item) =>
                   selected' = IF selected # NoItem /\ selected.id = item.id
                               THEN NoItem ELSE item
        /\ HomeSearch => selected' = NoItem ]_vars

\* the row with id "A:1" had been selected (a request was issued for it), its
\* other version is the row clicked last, and nothing is selected
C15_Witness ==
    /\ selected = NoItem
    /\ lastClicked.id = "A:1" /\ lastClicked.address = "12 Elm Street"
    /\ swrInflight[enrichmentKey(CHOOSE it \in Items : it.address = "12 Elm St" /\ it.id = "A:1")].id = "A:1"

\* C16: an edit of a form field changes the draft in that field only and
\* leaves the applied filters (and the selection) as they were; the applied
\* filters change only to the draft (submit) or to the defaults (reset: text
\* fields empty, limit 25); and whenever they change, the draft equals them.
C16_DraftAndApplied ==
    [][ /\ \A key \in FilterKeys : \A value \in FieldValues(key) :
               updateField(key, value) =>
                   /\ uiFilters' = uiFilters
                   /\ selected' = selected
                   /\ localFilters'[key] = value
                   /\ \A other \in FilterKeys \ {key} :
                          localFilters'[other] = localFilters[other]
        /\ uiFilters' # uiFilters =>
               /\ uiFilters' = localFilters \/ uiFilters' = resetFilters
               /\ localFilters' = uiFilters'
        /\ resetFilters.limit = DefaultLimit
        /\ \A key \in FilterKeys \ {"limit"} : resetFilters[key] = "" ]_vars

\* a search was submitted with a query and a limit of 50, and the draft has
\* been edited since without being applied
C16_Witness ==
    /\ uiFilters = [initialFilters EXCEPT !.query = "elm", !.limit = 50]
    /\ localFilters = [uiFilters EXCEPT !.state = "CA"]

====
